---- MODULE Spec2Model ----
(***************************************************************************)
(* The firmware release tracker of update.py: one run of main() polls the  *)
(* configured devices in order, stores every (device, version,             *)
(* release_type) it has not seen, notifies the configured sinks for each   *)
(* new row and finally rewrites the RSS feed.  The SQLite table persists   *)
(* between runs; everything else is per process.                           *)
(***************************************************************************)
EXTENDS Integers, Sequences, FiniteSets, TLC

\* ------------------------------------------------------------- bounds
NumDevices == 2     \* how many of the configured devices a run polls
MaxVersion == 1     \* distinct firmware versions a server may publish
MaxUrl == 2         \* distinct download urls a server may publish
MaxRuns == 2        \* consecutive runs of main()
MaxTime == 1        \* seconds the wall clock may advance
MaxTally == 2       \* the per-run tallies of outbound calls stop counting here

\* ------------------------------------------------------- configuration
\* The keys of URLS in insertion order (the order dict.items() yields).
Min(a, b) == IF a < b THEN a ELSE b

URLS == <<"elemnt", "bolt", "bolt2", "roam", "roam1.1", "roam2", "ace">>

\* A list that names the first release type in full.
RELEASE_TYPES_Standard == <<"standard", "beta", "alpha">>

\* The literal list the inner loop of main() iterates.
RELEASE_TYPES == <<"std", "beta", "alpha">>

Devices == SubSeq(URLS, 1, Min(NumDevices, Len(URLS)))

VersionNames == <<"v1", "v2", "v3", "v4">>
UrlNames == <<"u1", "u2", "u3", "u4">>

\* JSON null / Python None as a column value.
Null == "null"

Versions == {VersionNames[i] : i \in 1..Min(MaxVersion, Len(VersionNames))}
Urls == {UrlNames[i] : i \in 1..Min(MaxUrl, Len(UrlNames))}

version_key(release_type) == release_type \o "-version"
url_key(release_type) == release_type \o "-url"

\* ------------------------------------------------------- JSON values
\* What fetch_version_data returns: None on a request failure, otherwise
\* the decoded JSON value.
None == [kind |-> "none", val |-> <<>>]

JDict(f) == [kind |-> "dict", val |-> f]
JList(s) == [kind |-> "list", val |-> s]
JNum(n) == [kind |-> "num", val |-> n]
JBool(b) == [kind |-> "bool", val |-> b]

\* A JSON string, held as the pieces whose concatenation is its text.
JStr(parts) == [kind |-> "str", val |-> parts]

RECURSIVE Concat(_)
Concat(parts) ==
    IF parts = <<>> THEN "" ELSE Head(parts) \o Concat(Tail(parts))

\* A manifest with both keys of every type in T, all at version v and url u.
Manifest(T, v, u) ==
    JDict([k \in {version_key(t) : t \in T} \cup {url_key(t) : t \in T} |->
              IF k \in {version_key(t) : t \in T} THEN v ELSE u])

TypeSet == {RELEASE_TYPES[i] : i \in 1..Len(RELEASE_TYPES)}

\* Python truthiness of the fetched value (`if data:`).
Truthy(j) ==
    CASE j.kind = "none" -> FALSE
      [] j.kind = "dict" -> DOMAIN j.val # {}
      [] j.kind = "list" -> Len(j.val) > 0
      [] j.kind = "num" -> j.val # 0
      [] j.kind = "bool" -> j.val
      [] j.kind = "str" -> Concat(j.val) # ""
      [] OTHER -> TRUE

\* `key in data`: membership in a dict's keys or a list's elements, a
\* substring test on a string; a number or a boolean is not iterable
\* (TypeError).
InRaises(j) == j.kind \in {"num", "bool"}

Contains(j, key) ==
    CASE j.kind = "dict" -> key \in DOMAIN j.val
      [] j.kind = "list" -> \E i \in 1..Len(j.val) : j.val[i] = key
      [] j.kind = "str" -> \E a \in 1..Len(j.val) : \E b \in a..Len(j.val) :
                              Concat(SubSeq(j.val, a, b)) = key
      [] OTHER -> FALSE

\* ------------------------------------------------------------- state
VARIABLES
    store,                  \* rows of table versions, in id order
    now,                    \* the clock (UTC, whole seconds)
    PUSHOVER_USER_KEY,      \* TRUE iff the variable is set and non-empty
    PUSHOVER_API_TOKEN,
    BLUESKY_USERNAME,
    BLUESKY_APP_PASSWORD,
    client,                 \* the module-level BlueSky client
    pc,                     \* where main() is
    di,                     \* index of the device being processed
    ti,                     \* index of the release type being processed
    data,                   \* the value fetched for the current device
    new_version_recorded,   \* main()'s flag
    runs,                   \* runs started so far
    last,                   \* what the latest store_version call did
    sent,                   \* outbound notification calls of this run
    errors,                 \* the kinds of outbound call that failed this run
    rss_writes,             \* times this run wrote the feed file
    inserted,               \* rows this run added to the table
    failed,                 \* indices of the devices whose fetch failed this run
    pinned,                 \* the response each device gives when runs repeat
    replay,                 \* this run repeats a completed run's responses
    tz,                     \* hours the machine's local time is ahead of UTC
    feed,                   \* the items of the feed file this run wrote
    polled,                 \* indices of the devices this run fetched, in order
    attempts                \* release types store_version was called with for
                            \* the current device, in order

vars == <<store, now, PUSHOVER_USER_KEY, PUSHOVER_API_TOKEN, BLUESKY_USERNAME,
          BLUESKY_APP_PASSWORD, client, pc, di, ti, data, new_version_recorded,
          runs, last, sent, errors, rss_writes, inserted, failed, pinned, replay,
          tz, feed, polled, attempts>>

env == <<PUSHOVER_USER_KEY, PUSHOVER_API_TOKEN, BLUESKY_USERNAME,
         BLUESKY_APP_PASSWORD>>

\* ------------------------------------------------------- Version store
\* One row of the table created by init_db.
Row(id, device, version, url, release_type, first_seen) ==
    [id |-> id, device |-> device, version |-> version, url |-> url,
     release_type |-> release_type, first_seen |-> first_seen]

Rows(s) == {s[i] : i \in 1..Len(s)}

Triple(r) == <<r.device, r.version, r.release_type>>

\* NOT NULL on version and url (device and release_type never are null).
NotNullFails(version, url) == version = Null \/ url = Null

\* A table without the UNIQUE constraint.
UniqueFails_Never(s, device, version, release_type) == FALSE

\* UNIQUE(device, version, release_type).
UniqueFails(s, device, version, release_type) ==
    \E r \in Rows(s) : Triple(r) = <<device, version, release_type>>

\* A constraint that has the url in its key:
\* UNIQUE(device, version, url, release_type).
InsertOutcome_UrlInKey(s, device, version, url, release_type) ==
    IF version = Null \/ url = Null THEN "NOT NULL"
    ELSE IF \E r \in Rows(s) : /\ Triple(r) = <<device, version, release_type>>
                               /\ r.url = url
         THEN "UNIQUE"
    ELSE "ok"

\* The INSERT statement of store_version: "ok", or the constraint whose
\* violation raises sqlite3.IntegrityError.
InsertOutcome(s, device, version, url, release_type) ==
    IF NotNullFails(version, url) THEN "NOT NULL"
    ELSE IF UniqueFails(s, device, version, release_type) THEN "UNIQUE"
    ELSE "ok"

\* A table that keeps one row per device: the device's earlier rows go.
InsertRow_OnePerDevice(s, device, version, url, release_type, t) ==
    Append(SelectSeq(s, LAMBDA r : r.device # device),
           Row(Len(s) + 1, device, version, url, release_type, t))

\* datetime('now', 'localtime') at UTC second t on a machine zone hours ahead
\* of UTC.
localtime(t, zone) == t + zone * 3600

\* AUTOINCREMENT id and the first_seen default; rows are never deleted, so
\* the next id is one past the last.
InsertRow(s, device, version, url, release_type, t) ==
    Append(s, Row(Len(s) + 1, device, version, url, release_type, t))

\* ------------------------------------------------------- Notifier set
Call(sink, op, text, ok) == [sink |-> sink, op |-> op, text |-> text, ok |-> ok]

\* The f-string both sinks send.
Message(device, version, release_type) ==
    "New firmware version for " \o device \o ": " \o version
        \o " (" \o release_type \o ")"

\* An alert that is sent again when the first request fails.
send_pushover_alert_Resend(user_key, api_token, message, ok) ==
    IF ~user_key \/ ~api_token THEN <<>>
    ELSE IF ok THEN <<Call("push", "request", message, ok)>>
    ELSE <<Call("push", "request", message, ok), Call("push", "request", message, ok)>>

\* send_pushover_alert: the outbound calls it makes; a failed request is
\* caught and logged.
send_pushover_alert(user_key, api_token, message, ok) ==
    IF ~user_key \/ ~api_token THEN <<>>
    ELSE <<Call("push", "request", message, ok)>>

\* A login that hands back the client it created although the login failed.
login_to_bluesky_KeepsClient(username, password, ok) ==
    IF ~username \/ ~password THEN [client |-> "None", calls |-> <<>>]
    ELSE [client |-> IF ok THEN "Session" ELSE "Unauthenticated",
          calls |-> <<Call("social", "login", "", ok)>>]

\* login_to_bluesky: the client it returns (and leaves in the global) and
\* the outbound calls it makes.
login_to_bluesky(username, password, ok) ==
    IF ~username \/ ~password THEN [client |-> "None", calls |-> <<>>]
    ELSE [client |-> IF ok THEN "Session" ELSE "None",
          calls |-> <<Call("social", "login", "", ok)>>]

\* A post that logs in first whether or not a session is cached.
post_to_bluesky_LoginEachTime(c, username, password, message, o) ==
    LET first == login_to_bluesky(username, password, o.login1)
    IN  IF first.client = "None" THEN first
        ELSE LET post1 == first.calls \o <<Call("social", "post", message, o.post1)>>
             IN  IF o.post1 THEN [client |-> first.client, calls |-> post1]
                 ELSE LET again == login_to_bluesky(username, password, o.login2)
                      IN  IF again.client = "None"
                          THEN [client |-> "None", calls |-> post1 \o again.calls]
                          ELSE [client |-> again.client,
                                calls |-> post1 \o again.calls \o
                                          <<Call("social", "post", message, o.post2)>>]

\* A retry that is made whether or not the re-login succeeded.
post_to_bluesky_RetryAlways(c, username, password, message, o) ==
    LET first == IF c = "None" THEN login_to_bluesky(username, password, o.login1)
                 ELSE [client |-> c, calls |-> <<>>]
    IN  IF first.client = "None" THEN first
        ELSE LET post1 == first.calls \o <<Call("social", "post", message, o.post1)>>
             IN  IF o.post1 THEN [client |-> first.client, calls |-> post1]
                 ELSE LET again == login_to_bluesky(username, password, o.login2)
                      IN  [client |-> again.client,
                           calls |-> post1 \o again.calls \o
                                     <<Call("social", "post", message, o.post2)>>]

\* post_to_bluesky from client c; o gives the outcome of each external call
\* in the order the code makes them.
post_to_bluesky(c, username, password, message, o) ==
    LET first == IF c = "None" THEN login_to_bluesky(username, password, o.login1)
                 ELSE [client |-> c, calls |-> <<>>]
    IN  IF first.client = "None" THEN first
        ELSE LET post1 == first.calls \o <<Call("social", "post", message, o.post1)>>
             IN  IF o.post1 THEN [client |-> first.client, calls |-> post1]
                 ELSE LET again == login_to_bluesky(username, password, o.login2)
                      IN  IF again.client = "None"
                          THEN [client |-> "None", calls |-> post1 \o again.calls]
                          ELSE [client |-> again.client,
                                calls |-> post1 \o again.calls \o
                                          <<Call("social", "post", message, o.post2)>>]

Outcomes == [login1 : BOOLEAN, post1 : BOOLEAN, login2 : BOOLEAN,
             post2 : BOOLEAN, push : BOOLEAN]

\* Gates that test the first member of each credential pair only.
Notify_FirstMemberOnly(c, user_key, api_token, username, password, message, o) ==
    LET pushed == IF user_key
                  THEN send_pushover_alert(user_key, user_key, message, o.push)
                  ELSE <<>>
        posted == IF username
                  THEN post_to_bluesky(c, username, username, message, o)
                  ELSE [client |-> c, calls |-> <<>>]
    IN  [client |-> posted.client, calls |-> pushed \o posted.calls]

\* The notification part of store_version, run after the commit.
Notify(c, user_key, api_token, username, password, message, o) ==
    LET pushed == IF user_key /\ api_token
                  THEN send_pushover_alert(user_key, api_token, message, o.push)
                  ELSE <<>>
        posted == IF username /\ password
                  THEN post_to_bluesky(c, username, password, message, o)
                  ELSE [client |-> c, calls |-> <<>>]
    IN  [client |-> posted.client, calls |-> pushed \o posted.calls]

NoCall == [result |-> "none", error |-> "none", device |-> "", version |-> "",
           url |-> "", release_type |-> "", calls |-> <<>>]

Count(calls, sink, op) ==
    Cardinality({i \in 1..Len(calls) : calls[i].sink = sink /\ calls[i].op = op})

NoneSent == [push |-> 0, login |-> 0, post |-> 0]

\* The kinds of call among calls that failed.
Failures(calls) == {calls[i].op : i \in {k \in 1..Len(calls) : ~calls[k].ok}}

Tally(n, calls) ==
    [push |-> Min(n.push + Count(calls, "push", "request"), MaxTally),
     login |-> Min(n.login + Count(calls, "social", "login"), MaxTally),
     post |-> Min(n.post + Count(calls, "social", "post"), MaxTally)]

\* ------------------------------------------------------------ responses
\* The release types a manifest may carry: beta alone, or all three.
Shapes == {{"beta"}, TypeSet}

\* A manifest whose version or url is a JSON null.
NullManifests ==
    {Manifest({"beta"}, Null, UrlNames[1]), Manifest({"beta"}, VersionNames[1], Null)}

\* What a poll of one device may yield in the model: a failed request, a
\* number, an empty object, or a manifest of one of the shapes.
Responses ==
    {None, JNum(1), Manifest({}, Null, Null)}
    \cup {Manifest(T, v, u) : T \in Shapes, v \in Versions, u \in Urls}
    \cup NullManifests

\* ---------------------------------------------------------------- Init
Init ==
    /\ store = <<>>
    /\ now = 0
    /\ PUSHOVER_USER_KEY = FALSE
    /\ PUSHOVER_API_TOKEN = FALSE
    /\ BLUESKY_USERNAME = FALSE
    /\ BLUESKY_APP_PASSWORD = FALSE
    /\ client = "None"
    /\ pc = "idle"
    /\ di = 1
    /\ ti = 1
    /\ data = None
    /\ new_version_recorded = FALSE
    /\ runs = 0
    /\ last = NoCall
    /\ sent = NoneSent
    /\ errors = {}
    /\ rss_writes = 0
    /\ inserted = 0
    /\ failed = {}
    /\ pinned = <<>>
    /\ replay = FALSE
    /\ tz = 0
    /\ feed = <<>>
    /\ polled = <<>>
    /\ attempts = <<>>

Running == pc \in {"fetch", "type", "end"}

\* -------------------------------------------------------------- actions
\* A new process, dt seconds after the previous one ended (the clock starts
\* with the first): the module is imported (the environment is read, client
\* is None), main() calls init_db and clears its flag.  A run is taken to fit
\* in one second of the clock.
StartRun(user_key, api_token, username, password, dt, again) ==
    /\ pc \in {"idle", "done", "crashed", "killed"}
    /\ runs < MaxRuns
    /\ runs = 0 => dt = 0
    /\ runs' = runs + 1
    /\ now' = Min(now + dt, MaxTime)
    /\ PUSHOVER_USER_KEY' = user_key
    /\ PUSHOVER_API_TOKEN' = api_token
    /\ BLUESKY_USERNAME' = username
    /\ BLUESKY_APP_PASSWORD' = password
    /\ client' = "None"
    /\ new_version_recorded' = FALSE
    /\ pc' = "fetch"
    /\ di' = 1
    /\ ti' = 1
    /\ data' = None
    /\ last' = NoCall
    /\ sent' = NoneSent
    /\ errors' = {}
    /\ rss_writes' = 0
    /\ inserted' = 0
    /\ failed' = {}
    /\ replay' = again
    /\ polled' = <<>>
    /\ attempts' = <<>>
    /\ feed' = <<>>
    /\ UNCHANGED <<store, pinned, tz>>

\* The process ends: normally ("done"), by an exception nothing catches
\* ("crashed"), or terminated from outside ("killed").  Its memory is gone,
\* the table and the feed file stay.
Exit(how) ==
    /\ pc' = how
    /\ client' = "None"
    /\ data' = None
    /\ di' = 1
    /\ ti' = 1
    /\ attempts' = <<>>

\* An inner loop that leaves the device after its first release type.
AfterType_Break(i) ==
    /\ pc' = IF di < Len(Devices) THEN "fetch" ELSE "end"
    /\ ti' = 1
    /\ di' = IF di < Len(Devices) THEN di + 1 ELSE di

\* Where the loops of main() are after finishing release type i of the
\* current device (i = Len(RELEASE_TYPES) also stands for a skipped device).
AfterType(i) ==
    IF i < Len(RELEASE_TYPES)
    THEN /\ pc' = "type"
         /\ ti' = i + 1
         /\ di' = di
    ELSE /\ pc' = IF di < Len(Devices) THEN "fetch" ELSE "end"
         /\ ti' = 1
         /\ di' = IF di < Len(Devices) THEN di + 1 ELSE di

\* A fetch whose failure ends the run.
FetchDevice_Abort(j) ==
    /\ pc = "fetch"
    /\ IF Truthy(j)
       THEN /\ pc' = "type"
            /\ ti' = 1
            /\ di' = di
            /\ data' = j
            /\ client' = client
            /\ attempts' = <<>>
       ELSE Exit("crashed")
    /\ failed' = IF j = None THEN failed \cup {di} ELSE failed
    /\ polled' = Append(polled, di)
    /\ last' = NoCall
    /\ UNCHANGED <<store, now, env, new_version_recorded, runs, sent, errors,
                   rss_writes, inserted, pinned, replay, tz, feed>>

\* A fetch that is made once more when it fails.
FetchDevice_Retry(j) ==
    /\ pc = "fetch"
    /\ data' = j
    /\ IF j = None /\ di \notin failed
       THEN /\ pc' = "fetch"
            /\ ti' = 1
            /\ di' = di
       ELSE IF Truthy(j)
       THEN /\ pc' = "type"
            /\ ti' = 1
            /\ di' = di
       ELSE AfterType(Len(RELEASE_TYPES))
    /\ failed' = IF j = None THEN failed \cup {di} ELSE failed
    /\ polled' = Append(polled, di)
    /\ attempts' = <<>>
    /\ last' = NoCall
    /\ UNCHANGED <<store, now, env, client, new_version_recorded, runs, sent,
                   errors, rss_writes, inserted, pinned, replay, tz, feed>>

\* One iteration of the device loop up to the inner loop: the fetch and the
\* truthiness test of its result.
FetchDevice(j) ==
    /\ pc = "fetch"
    /\ data' = j
    /\ IF Truthy(j)
       THEN /\ pc' = "type"
            /\ ti' = 1
            /\ di' = di
       ELSE AfterType(Len(RELEASE_TYPES))
    /\ failed' = IF j = None THEN failed \cup {di} ELSE failed
    /\ polled' = Append(polled, di)
    /\ attempts' = <<>>
    /\ last' = NoCall
    /\ UNCHANGED <<store, now, env, client, new_version_recorded, runs, sent, errors,
                   rss_writes, inserted, pinned, replay, tz, feed>>

BothKeys(j, release_type) ==
    Contains(j, version_key(release_type)) /\ Contains(j, url_key(release_type))

\* An iteration of the inner loop that makes no call of store_version.
SkipType ==
    /\ pc = "type"
    /\ ~InRaises(data)
    /\ ~BothKeys(data, RELEASE_TYPES[ti])
    /\ AfterType(ti)
    /\ last' = NoCall
    /\ UNCHANGED <<store, now, env, client, data, new_version_recorded, runs,
                   sent, errors, rss_writes, inserted, failed, pinned, replay, tz, feed, polled,
                   attempts>>

\* An iteration of the inner loop that raises TypeError: `in` on a value
\* that is not iterable, or a string subscript on a list.
TypeCrash ==
    /\ pc = "type"
    /\ \/ InRaises(data)
       \/ BothKeys(data, RELEASE_TYPES[ti]) /\ data.kind # "dict"
    /\ Exit("crashed")
    /\ last' = NoCall
    /\ UNCHANGED <<store, now, env, new_version_recorded, runs, sent, errors,
                   rss_writes, inserted, failed, pinned, replay, tz, feed, polled>>

CallOf(result, error, device, version, url, release_type, calls) ==
    [result |-> result, error |-> error, device |-> device, version |-> version,
     url |-> url, release_type |-> release_type, calls |-> calls]

\* A store_version that notifies for a row it finds recorded as well.
store_version_NotifyRecorded(device, version, apk_url, release_type, db, o) ==
    LET outcome == InsertOutcome(store, device, version, apk_url, release_type)
        n == Notify(client, PUSHOVER_USER_KEY, PUSHOVER_API_TOKEN,
                    BLUESKY_USERNAME, BLUESKY_APP_PASSWORD,
                    Message(device, version, release_type), o)
    IN  IF db = "error"
        THEN \* any sqlite3 error but IntegrityError leaves store_version
             \* and main()
             /\ Exit("crashed")
             /\ last' = CallOf("Raised", "OperationalError", device, version,
                               apk_url, release_type, <<>>)
             /\ UNCHANGED <<store, new_version_recorded, sent, errors, inserted>>
        ELSE IF outcome # "ok"
        THEN \* except sqlite3.IntegrityError: "already recorded"
             /\ last' = CallOf("AlreadyExists", outcome, device, version,
                               apk_url, release_type, n.calls)
             /\ client' = n.client
             /\ sent' = Tally(sent, n.calls)
             /\ errors' = errors \cup Failures(n.calls)
             /\ new_version_recorded' = TRUE
             /\ AfterType(ti)
             /\ data' = data
             /\ attempts' = Append(attempts, release_type)
             /\ UNCHANGED <<store, inserted>>
        ELSE IF db = "killed"
        THEN \* the process dies between the commit and the notifications
             /\ store' = InsertRow(store, device, version, apk_url,
                                   release_type, localtime(now, tz))
             /\ Exit("killed")
             /\ last' = CallOf("Inserted", "killed", device, version, apk_url,
                               release_type, <<>>)
             /\ inserted' = inserted + 1
             /\ UNCHANGED <<new_version_recorded, sent, errors>>
        ELSE /\ store' = InsertRow(store, device, version, apk_url,
                                   release_type, localtime(now, tz))
             /\ client' = n.client
             /\ last' = CallOf("Inserted", "none", device, version, apk_url,
                               release_type, n.calls)
             /\ sent' = Tally(sent, n.calls)
             /\ errors' = errors \cup Failures(n.calls)
             /\ inserted' = inserted + 1
             /\ new_version_recorded' = TRUE
             /\ AfterType(ti)
             /\ data' = data
             /\ attempts' = Append(attempts, release_type)

\* store_version(device, version, apk_url, release_type) as called from
\* main(), with what main() does on its return.  db is the storage engine's
\* condition, o the outcome of each external call.
store_version(device, version, apk_url, release_type, db, o) ==
    LET outcome == InsertOutcome(store, device, version, apk_url, release_type)
        n == Notify(client, PUSHOVER_USER_KEY, PUSHOVER_API_TOKEN,
                    BLUESKY_USERNAME, BLUESKY_APP_PASSWORD,
                    Message(device, version, release_type), o)
    IN  IF db = "error"
        THEN \* any sqlite3 error but IntegrityError leaves store_version
             \* and main()
             /\ Exit("crashed")
             /\ last' = CallOf("Raised", "OperationalError", device, version,
                               apk_url, release_type, <<>>)
             /\ UNCHANGED <<store, new_version_recorded, sent, errors, inserted>>
        ELSE IF outcome # "ok"
        THEN \* except sqlite3.IntegrityError: "already recorded"
             /\ last' = CallOf("AlreadyExists", outcome, device, version,
                               apk_url, release_type, <<>>)
             /\ new_version_recorded' = TRUE
             /\ AfterType(ti)
             /\ data' = data
             /\ attempts' = Append(attempts, release_type)
             /\ UNCHANGED <<store, client, sent, errors, inserted>>
        ELSE IF db = "killed"
        THEN \* the process dies between the commit and the notifications
             /\ store' = InsertRow(store, device, version, apk_url,
                                   release_type, localtime(now, tz))
             /\ Exit("killed")
             /\ last' = CallOf("Inserted", "killed", device, version, apk_url,
                               release_type, <<>>)
             /\ inserted' = inserted + 1
             /\ UNCHANGED <<new_version_recorded, sent, errors>>
        ELSE /\ store' = InsertRow(store, device, version, apk_url,
                                   release_type, localtime(now, tz))
             /\ client' = n.client
             /\ last' = CallOf("Inserted", "none", device, version, apk_url,
                               release_type, n.calls)
             /\ sent' = Tally(sent, n.calls)
             /\ errors' = errors \cup Failures(n.calls)
             /\ inserted' = inserted + 1
             /\ new_version_recorded' = TRUE
             /\ AfterType(ti)
             /\ data' = data
             /\ attempts' = Append(attempts, release_type)

\* An iteration of the inner loop that calls store_version.
StoreType(db, o) ==
    /\ pc = "type"
    /\ data.kind = "dict"
    /\ BothKeys(data, RELEASE_TYPES[ti])
    /\ store_version(Devices[di], data.val[version_key(RELEASE_TYPES[ti])],
                     data.val[url_key(RELEASE_TYPES[ti])], RELEASE_TYPES[ti],
                     db, o)
    /\ UNCHANGED <<now, env, runs, rss_writes, failed, pinned, replay, tz, feed, polled>>

\* ---------------------------------------------------------- Feed builder
\* LIMIT 100 of the query.
LIMIT == 100

\* America/Denver as hours ahead of UTC (standard time).
local_tz == -7

\* The rows of R in every order ORDER BY first_seen DESC allows: the query
\* names no second key, so rows of one first_seen come in any order.
RECURSIVE OrderByFirstSeenDesc(_)
OrderByFirstSeenDesc(R) ==
    IF R = {} THEN {<<>>}
    ELSE UNION {{<<r>> \o q : q \in OrderByFirstSeenDesc(R \ {r})} :
                   r \in {x \in R : \A y \in R : y.first_seen <= x.first_seen}}

\* What the SELECT of generate_rss may fetch from table s.
SelectRecent(s, limit) ==
    {SubSeq(q, 1, Min(limit, Len(q))) : q \in OrderByFirstSeenDesc(Rows(s))}

\* The rows of R by first_seen descending, rows of one first_seen in the
\* order a scan of the table meets them: by ascending id if forward, by
\* descending id if not.
ScanOrder(R, forward) ==
    LET Before(x, r) ==
            \/ x.first_seen > r.first_seen
            \/ /\ x.first_seen = r.first_seen
               /\ IF forward THEN x.id < r.id ELSE x.id > r.id
    IN  [k \in 1..Cardinality(R) |->
            CHOOSE r \in R : Cardinality({x \in R : Before(x, r)}) = k - 1]

\* The fetches of SelectRecent that a scan in one direction yields.
SelectScan(s, limit) ==
    {SubSeq(ScanOrder(Rows(s), forward), 1, Min(limit, Len(s))) :
        forward \in BOOLEAN}

\* strptime, pytz.utc.localize, astimezone(local_tz): the text of first_seen
\* is read as a UTC time and shown as the Denver wall-clock time with its
\* offset (%z).
PubDate(first_seen) ==
    [wall |-> first_seen + local_tz * 3600, utcoffset |-> local_tz]

\* One <item> of the feed.
Item(r) ==
    [title |-> r.device \o " - " \o r.version \o " (" \o r.release_type \o ")",
     link |-> r.url,
     description |-> "Version " \o r.version \o " (" \o r.release_type
                        \o ") for " \o r.device,
     pubDate |-> PubDate(r.first_seen)]

\* generate_rss with the rows its query fetched: the feed file is written
\* anew, one item per row.
generate_rss(entries) ==
    /\ rss_writes' = rss_writes + 1
    /\ feed' = [i \in 1..Len(entries) |-> Item(entries[i])]

\* An end of main() that leaves the feed alone when social posting is on.
Finish_SocialExclusive(entries) ==
    /\ pc = "end"
    /\ IF new_version_recorded /\ ~(BLUESKY_USERNAME /\ BLUESKY_APP_PASSWORD)
       THEN generate_rss(entries) ELSE UNCHANGED <<rss_writes, feed>>
    /\ Exit("done")
    /\ last' = NoCall
    /\ UNCHANGED <<store, now, env, new_version_recorded, runs, sent, errors, inserted,
                   failed, pinned, replay, tz, polled>>

\* The end of main().
Finish(entries) ==
    /\ pc = "end"
    /\ IF new_version_recorded
       THEN generate_rss(entries) ELSE UNCHANGED <<rss_writes, feed>>
    /\ Exit("done")
    /\ last' = NoCall
    /\ UNCHANGED <<store, now, env, new_version_recorded, runs, sent, errors, inserted,
                   failed, pinned, replay, tz, polled>>

\* The process is terminated from outside between two steps.
Kill ==
    /\ Running
    /\ Exit("killed")
    /\ last' = NoCall
    /\ UNCHANGED <<store, now, env, new_version_recorded, runs, sent, errors,
                   rss_writes, inserted, failed, pinned, replay, tz, feed, polled>>

AllOk == [login1 |-> TRUE, post1 |-> TRUE, login2 |-> TRUE, post2 |-> TRUE,
          push |-> TRUE]

\* The outcomes of the external calls that can be made from the current
\* state; the outcome of a call that is not made is left at TRUE.
Asked ==
    {o \in Outcomes :
        /\ (~(PUSHOVER_USER_KEY /\ PUSHOVER_API_TOKEN) => o.push)
        /\ (~(BLUESKY_USERNAME /\ BLUESKY_APP_PASSWORD) =>
                o.login1 /\ o.post1 /\ o.login2 /\ o.post2)
        /\ (client # "None" => o.login1)
        /\ (~o.login1 => o.post1)
        /\ (o.post1 => o.login2)
        /\ (~o.login2 => o.post2)}

Next ==
    \/ \E uk, at, bu, bp \in BOOLEAN, dt \in 0..1 :
          StartRun(uk, at, bu, bp, dt, FALSE)
    \/ \E j \in Responses : FetchDevice(j)
    \/ SkipType
    \/ TypeCrash
    \/ \E o \in Asked : StoreType("ok", o)
    \/ \E db \in {"error", "killed"} : StoreType(db, AllOk)
    \/ \E entries \in SelectScan(store, LIMIT) : Finish(entries)
    \/ Kill

Spec == Init /\ [][Next]_vars

\* ------------------------------------------------------- repeated runs
\* Runs whose fetches return the same thing every time: each device's
\* response is fixed at the start, the table holds at most one earlier row,
\* each sink is wholly on or off, and a run is started only after a completed
\* one, whose repetition it is.
SeedStores ==
    {<<>>} \cup {<<Row(1, Devices[d], v, u, t, 0)>> :
                    d \in 1..Len(Devices), v \in Versions, u \in Urls,
                    t \in TypeSet}

InitTwice ==
    /\ store \in SeedStores
    /\ now = 0
    /\ PUSHOVER_USER_KEY = FALSE
    /\ PUSHOVER_API_TOKEN = FALSE
    /\ BLUESKY_USERNAME = FALSE
    /\ BLUESKY_APP_PASSWORD = FALSE
    /\ client = "None"
    /\ pc = "idle"
    /\ di = 1
    /\ ti = 1
    /\ data = None
    /\ new_version_recorded = FALSE
    /\ runs = 0
    /\ last = NoCall
    /\ sent = NoneSent
    /\ errors = {}
    /\ rss_writes = 0
    /\ inserted = 0
    /\ failed = {}
    /\ pinned \in [1..Len(Devices) -> Responses]
    /\ replay = FALSE
    /\ tz = 0
    /\ feed = <<>>
    /\ polled = <<>>
    /\ attempts = <<>>

NextTwice ==
    \/ \E push, social \in BOOLEAN, dt \in 0..1 :
          pc \in {"idle", "done"} /\ StartRun(push, push, social, social, dt, pc = "done")
    \/ FetchDevice(pinned[di])
    \/ SkipType
    \/ TypeCrash
    \/ \E o \in Asked : StoreType("ok", o)
    \/ \E db \in {"error", "killed"} : StoreType(db, AllOk)
    \/ \E entries \in SelectScan(store, LIMIT) : Finish(entries)
    \/ Kill

SpecTwice == InitTwice /\ [][NextTwice]_vars

\* ------------------------------------------------- arbitrary manifests
\* The six keys main() looks for.
KeySet == {version_key(t) : t \in TypeSet} \cup {url_key(t) : t \in TypeSet}

\* A mapping with any subset of the six keys.
KeyManifests ==
    {JDict([k \in K |-> IF k \in {version_key(t) : t \in TypeSet}
                        THEN VersionNames[1] ELSE UrlNames[1]]) :
        K \in SUBSET KeySet}

\* JSON values that are no mapping.
NonMappings ==
    {JNum(0), JNum(1), JBool(FALSE), JBool(TRUE),
     JList(<<>>), JList(<<"std-version">>), JList(<<"beta-version", "beta-url">>),
     JStr(<<>>), JStr(<<"ok">>), JStr(<<"alpha-version", " ", "alpha-url">>)}

AnyJson == {None} \cup KeyManifests \cup NonMappings

\* One run that may fetch any of these values, on a table that holds nothing
\* or one earlier row; each sink is wholly on or off.
InitManifest ==
    /\ store \in SeedStores
    /\ now = 0
    /\ PUSHOVER_USER_KEY = FALSE
    /\ PUSHOVER_API_TOKEN = FALSE
    /\ BLUESKY_USERNAME = FALSE
    /\ BLUESKY_APP_PASSWORD = FALSE
    /\ client = "None"
    /\ pc = "idle"
    /\ di = 1
    /\ ti = 1
    /\ data = None
    /\ new_version_recorded = FALSE
    /\ runs = 0
    /\ last = NoCall
    /\ sent = NoneSent
    /\ errors = {}
    /\ rss_writes = 0
    /\ inserted = 0
    /\ failed = {}
    /\ pinned = <<>>
    /\ replay = FALSE
    /\ tz = 0
    /\ feed = <<>>
    /\ polled = <<>>
    /\ attempts = <<>>

NextManifest ==
    \/ \E push, social \in BOOLEAN :
          pc = "idle" /\ StartRun(push, push, social, social, 0, FALSE)
    \/ \E j \in AnyJson : FetchDevice(j)
    \/ SkipType
    \/ TypeCrash
    \/ \E o \in Asked : StoreType("ok", o)
    \/ \E db \in {"error", "killed"} : StoreType(db, AllOk)
    \/ \E entries \in SelectScan(store, LIMIT) : Finish(entries)
    \/ Kill

SpecManifest == InitManifest /\ [][NextManifest]_vars

\* --------------------------------------------------------- feed contents
\* Zones the machine may be set to, as hours ahead of UTC.
StoreOffsets == {-7, 0, 1}

FeedResponses ==
    {None, JNum(1), Manifest({"beta"}, VersionNames[1], UrlNames[1]),
     Manifest({"std", "beta"}, VersionNames[1], UrlNames[1])}

\* Runs on a machine in any of these zones, whose feed query may fetch rows
\* of one first_seen in any order.
InitFeed ==
    /\ store = <<>>
    /\ now = 0
    /\ PUSHOVER_USER_KEY = FALSE
    /\ PUSHOVER_API_TOKEN = FALSE
    /\ BLUESKY_USERNAME = FALSE
    /\ BLUESKY_APP_PASSWORD = FALSE
    /\ client = "None"
    /\ pc = "idle"
    /\ di = 1
    /\ ti = 1
    /\ data = None
    /\ new_version_recorded = FALSE
    /\ runs = 0
    /\ last = NoCall
    /\ sent = NoneSent
    /\ errors = {}
    /\ rss_writes = 0
    /\ inserted = 0
    /\ failed = {}
    /\ pinned = <<>>
    /\ replay = FALSE
    /\ tz \in StoreOffsets
    /\ feed = <<>>
    /\ polled = <<>>
    /\ attempts = <<>>

NextFeed ==
    \/ \E social \in BOOLEAN, dt \in 0..1 :
          StartRun(FALSE, FALSE, social, social, dt, FALSE)
    \/ \E j \in FeedResponses : FetchDevice(j)
    \/ SkipType
    \/ TypeCrash
    \/ \E o \in Asked : StoreType("ok", o)
    \/ \E db \in {"error", "killed"} : StoreType(db, AllOk)
    \/ \E entries \in SelectRecent(store, LIMIT) : Finish(entries)
    \/ Kill

SpecFeed == InitFeed /\ [][NextFeed]_vars

\* ------------------------------------------------------------ progress
\* What a fetch yields when the server answers with a mapping or not at all.
LiveResponses ==
    {None, Manifest({}, Null, Null),
     Manifest({"beta"}, VersionNames[1], UrlNames[1]),
     Manifest(TypeSet, VersionNames[1], UrlNames[1]),
     Manifest({"beta"}, VersionNames[1], Null)}

\* Runs in which every external call returns, the storage engine serves
\* every statement and nothing ends the process from outside; each sink is
\* wholly on or off.
NextLive ==
    \/ \E push, social \in BOOLEAN :
          StartRun(push, push, social, social, 0, FALSE)
    \/ \E j \in LiveResponses : FetchDevice(j)
    \/ SkipType
    \/ \E o \in Asked : StoreType("ok", o)
    \/ \E entries \in SelectScan(store, LIMIT) : Finish(entries)

\* main() is sequential code: a step it can take, it takes.
SpecLive ==
    /\ Init
    /\ [][NextLive]_vars
    /\ WF_vars(\E j \in LiveResponses : FetchDevice(j))
    /\ WF_vars(SkipType)
    /\ WF_vars(\E o \in Asked : StoreType("ok", o))
    /\ WF_vars(\E entries \in SelectScan(store, LIMIT) : Finish(entries))

\* =================================================================
\* Properties
\* =================================================================
\* Some row of the table has this triple.
StoredTriple(device, version, release_type) ==
    \E i \in 1..Len(store) :
        /\ store[i].device = device
        /\ store[i].version = version
        /\ store[i].release_type = release_type

\* The step made a call of store_version that the storage engine served.
Attempted == last'.result # "none" /\ last'.error # "OperationalError"

PushOn == PUSHOVER_USER_KEY /\ PUSHOVER_API_TOKEN
SocialOn == BLUESKY_USERNAME /\ BLUESKY_APP_PASSWORD

CallsOf(calls, sink) == SelectSeq(calls, LAMBDA c : c.sink = sink)

\* C1: a run that repeats a completed run with identical fetched manifests
\* leaves the stored rows as they were and makes no push or social call.
C1_Idempotent ==
    [][replay' => /\ store' = store
                  /\ sent' = NoneSent
                  /\ last'.calls = <<>>]_vars

\* A repeated run has finished after making insert attempts with both sinks
\* on, on a table the first run added rows to.
C1_Witness ==
    /\ replay
    /\ pc = "done"
    /\ new_version_recorded
    /\ PushOn /\ SocialOn
    /\ Len(store) >= 2

\* C2: no two rows ever share (device, version, release_type); an insert of
\* a stored triple is answered "already recorded", adds no row and raises
\* nothing.
C2_Unique ==
    [][/\ \A i, j \in 1..Len(store') :
             (/\ store'[i].device = store'[j].device
              /\ store'[i].version = store'[j].version
              /\ store'[i].release_type = store'[j].release_type) => i = j
       /\ (Attempted /\ StoredTriple(last'.device, last'.version,
                                     last'.release_type))
             => /\ last'.result = "AlreadyExists"
                /\ store' = store
                /\ pc' \in {"fetch", "type", "end"}]_vars

\* An insert of a triple the table holds has just been answered.
C2_Witness ==
    /\ last.result = "AlreadyExists"
    /\ last.error = "UNIQUE"
    /\ StoredTriple(last.device, last.version, last.release_type)

\* C3: a call of store_version that inserts makes, for that one record and
\* in the same step as the commit, exactly one push request if the push sink
\* is on and one use of the social sink if that is on; a call that finds the
\* row recorded makes no call.
C3_PerRecordDispatch ==
    /\ (last.result = "Inserted" /\ last.error = "none") =>
          /\ \E r \in Rows(store) :
                /\ Triple(r) = <<last.device, last.version, last.release_type>>
                /\ r.url = last.url
          /\ Len(CallsOf(last.calls, "push")) = IF PushOn THEN 1 ELSE 0
          /\ Len(CallsOf(last.calls, "social")) >= IF SocialOn THEN 1 ELSE 0
          /\ ~SocialOn => CallsOf(last.calls, "social") = <<>>
          /\ \A i \in 1..Len(last.calls) :
                last.calls[i].op \in {"request", "post"} =>
                   last.calls[i].text =
                      Message(last.device, last.version, last.release_type)
          /\ Cardinality({i \in 1..Len(last.calls) :
                             last.calls[i].op = "post" /\ last.calls[i].ok}) <= 1
    /\ last.result = "AlreadyExists" => last.calls = <<>>

\* A row was inserted with both sinks on, and each was used.
C3_Witness ==
    /\ last.result = "Inserted"
    /\ last.error = "none"
    /\ PushOn /\ SocialOn
    /\ Len(CallsOf(last.calls, "push")) = 1
    /\ \E i \in 1..Len(last.calls) : last.calls[i].op = "post" /\ last.calls[i].ok

\* C4 (as claimed): a completed run has rewritten the feed exactly when one
\* of its insert attempts inserted a row.
C4_FeedIffInserted ==
    pc = "done" => (rss_writes >= 1 <=> inserted >= 1)

\* The step is a fetch that failed (and the process was not terminated).
FetchFailedStep == pc = "fetch" /\ data' = None /\ pc' # "killed"

\* The step is an insert attempt for a triple the table lacks, served by the
\* storage engine and survived by the process.
NewTripleStep ==
    /\ pc = "type"
    /\ data.kind = "dict"
    /\ version_key(RELEASE_TYPES[ti]) \in DOMAIN data.val
    /\ url_key(RELEASE_TYPES[ti]) \in DOMAIN data.val
    /\ data.val[version_key(RELEASE_TYPES[ti])] # Null
    /\ data.val[url_key(RELEASE_TYPES[ti])] # Null
    /\ ~StoredTriple(Devices[di], data.val[version_key(RELEASE_TYPES[ti])],
                     RELEASE_TYPES[ti])
    /\ pc' \notin {"crashed", "killed"}

\* C5: a failed fetch makes no insert attempt and the run goes on to the
\* next device (or to its end); an insert attempt for a new triple of a
\* device whose fetch succeeded stores the row and uses the configured sinks,
\* whichever devices failed before it.
C5_FetchFailureIsolation ==
    [][/\ FetchFailedStep =>
             /\ store' = store
             /\ last' = NoCall
             /\ sent' = sent
             /\ IF di < Len(Devices)
                THEN pc' = "fetch" /\ di' = di + 1
                ELSE pc' = "end"
       /\ NewTripleStep =>
             /\ Len(store') = Len(store) + 1
             /\ store'[Len(store')].device = Devices[di]
             /\ store'[Len(store')].version = data.val[version_key(RELEASE_TYPES[ti])]
             /\ store'[Len(store')].release_type = RELEASE_TYPES[ti]
             /\ PushOn => CallsOf(last'.calls, "push") # <<>>
             /\ SocialOn => CallsOf(last'.calls, "social") # <<>>]_vars

\* The first device's fetch failed and the second device's new row was
\* stored and pushed in the same run.
C5_Witness ==
    /\ 1 \in failed
    /\ last.result = "Inserted"
    /\ last.device = Devices[2]
    /\ StoredTriple(last.device, last.version, last.release_type)
    /\ PushOn
    /\ CallsOf(last.calls, "push") # <<>>

\* The social calls of the latest store_version call, and the place of its
\* first post among them (0 if it made none).
Social == CallsOf(last.calls, "social")
FirstPost ==
    IF \E k \in 1..Len(Social) : Social[k].op = "post"
    THEN CHOOSE k \in 1..Len(Social) :
            /\ Social[k].op = "post"
            /\ \A m \in 1..(k - 1) : Social[m].op # "post"
    ELSE 0

Posts == Cardinality({k \in 1..Len(Social) : Social[k].op = "post"})

\* C6 (as claimed): a failed post is followed by exactly one login attempt
\* and then exactly one retry of the post.
C6_RetryAfterEveryFailure ==
    (FirstPost > 0 /\ ~Social[FirstPost].ok) =>
        /\ Len(Social) = FirstPost + 2
        /\ Social[FirstPost + 1].op = "login"
        /\ Social[FirstPost + 2].op = "post"

\* C6 (amended): a failed post is followed by exactly one login attempt, and
\* by exactly one retry of the post if that login succeeded, by nothing if it
\* failed; a record causes at most two posts; whatever the retry does, the
\* row stays and the run goes on.
C6_SocialRetry ==
    /\ FirstPost > 0 =>
          IF Social[FirstPost].ok
          THEN Len(Social) = FirstPost
          ELSE /\ Len(Social) >= FirstPost + 1
               /\ Social[FirstPost + 1].op = "login"
               /\ IF Social[FirstPost + 1].ok
                  THEN /\ Len(Social) = FirstPost + 2
                       /\ Social[FirstPost + 2].op = "post"
                  ELSE Len(Social) = FirstPost + 1
    /\ Posts <= 2
    /\ Social # <<>> =>
          /\ pc \in {"fetch", "type", "end"}
          /\ StoredTriple(last.device, last.version, last.release_type)

\* A post failed, the re-login succeeded and the retry failed as well; the
\* run is going on.
C6_Witness ==
    /\ FirstPost > 0
    /\ Len(Social) = FirstPost + 2
    /\ ~Social[FirstPost].ok
    /\ Social[FirstPost + 1].ok
    /\ ~Social[FirstPost + 2].ok
    /\ pc \in {"fetch", "type", "end"}

\* C7: a sink makes outbound calls only with both members of its own pair
\* set, and then does so whatever the other sink's pair is; a row inserted
\* with no sink on is stored without any outbound call.
C7_NotificationGating ==
    /\ CallsOf(last.calls, "push") # <<>> => PushOn
    /\ CallsOf(last.calls, "social") # <<>> => SocialOn
    /\ sent.push > 0 => PushOn
    /\ sent.login + sent.post > 0 => SocialOn
    /\ (last.result = "Inserted" /\ last.error = "none") =>
          /\ PushOn => CallsOf(last.calls, "push") # <<>>
          /\ SocialOn => CallsOf(last.calls, "social") # <<>>
          /\ StoredTriple(last.device, last.version, last.release_type)

\* A row was inserted with half a push pair and a whole social pair: the
\* social sink was used, the push sink was not.
C7_Witness ==
    /\ last.result = "Inserted"
    /\ last.error = "none"
    /\ PUSHOVER_USER_KEY /\ ~PUSHOVER_API_TOKEN
    /\ SocialOn
    /\ CallsOf(last.calls, "push") = <<>>
    /\ CallsOf(last.calls, "social") # <<>>
    /\ StoredTriple(last.device, last.version, last.release_type)

\* C8 (as claimed): "already recorded" answers only an insert whose triple
\* the table holds; an insert with a null version or url raises and ends the
\* run.
C8_OnlyUniqueIsAlreadyExists ==
    /\ last.result = "AlreadyExists" =>
          StoredTriple(last.device, last.version, last.release_type)
    /\ (last.result # "none" /\ (last.version = Null \/ last.url = Null)) =>
          last.result = "Raised" /\ pc = "crashed"

\* C9: no step removes or changes a row; an insert attempt for a stored
\* triple with another url changes nothing in the table and makes no call.
C9_AppendOnly ==
    [][/\ Len(store') >= Len(store)
       /\ \A i \in 1..Len(store) : store'[i] = store[i]
       /\ (Attempted /\ \E i \in 1..Len(store) :
                           /\ store[i].device = last'.device
                           /\ store[i].version = last'.version
                           /\ store[i].release_type = last'.release_type
                           /\ store[i].url # last'.url)
             => store' = store /\ last'.calls = <<>>]_vars

\* A poll reported another url for a stored triple; the stored url stands.
C9_Witness ==
    /\ last.result = "AlreadyExists"
    /\ \E i \in 1..Len(store) :
          /\ store[i].device = last.device
          /\ store[i].version = last.version
          /\ store[i].release_type = last.release_type
          /\ store[i].url # last.url

\* C10 (as claimed): with the social credentials set the feed is never
\* rewritten, and no run both posts and rewrites the feed.
C10_FeedOrSocial ==
    /\ SocialOn => rss_writes = 0
    /\ ~(sent.post > 0 /\ rss_writes > 0)

\* C10 (amended): the feed is rewritten at the end of a run exactly when
\* main()'s flag is set, whether or not the social credentials are set.
C10_FeedWhateverSocial ==
    /\ pc \in {"fetch", "type", "end"} => rss_writes = 0
    /\ pc = "done" => rss_writes = IF new_version_recorded THEN 1 ELSE 0

\* A run with the social sink on has posted and then rewritten the feed.
C10_Witness ==
    /\ pc = "done"
    /\ SocialOn
    /\ sent.post > 0
    /\ rss_writes = 1

\* The release types of which mapping j has both keys, in the order
\* standard, beta, alpha.
Complete(j) ==
    SelectSeq(RELEASE_TYPES, LAMBDA t : /\ version_key(t) \in DOMAIN j.val
                                        /\ url_key(t) \in DOMAIN j.val)

\* C11: when the inner loop has gone through a fetched mapping, store_version
\* has been called for exactly the release types of which the mapping has
\* both keys, in the order standard, beta, alpha: each iteration calls it if
\* and only if both keys of its type are present; the devices are fetched in
\* the configured order.
C11_PartialManifest ==
    [][/\ (pc = "type" /\ data.kind = "dict" /\ pc' \in {"fetch", "end"}) =>
             attempts' = Complete(data)
       /\ (pc = "fetch" /\ data'.kind = "dict" /\ pc' \in {"fetch", "end"}) =>
             attempts' = <<>> /\ Complete(data') = <<>>
       /\ (pc = "type" /\ data.kind = "dict" /\ pc' \in {"fetch", "type", "end"}) =>
             IF /\ version_key(RELEASE_TYPES[ti]) \in DOMAIN data.val
                /\ url_key(RELEASE_TYPES[ti]) \in DOMAIN data.val
             THEN /\ attempts' = Append(attempts, RELEASE_TYPES[ti])
                  /\ last'.result \in {"Inserted", "AlreadyExists"}
                  /\ last'.device = Devices[di]
                  /\ last'.release_type = RELEASE_TYPES[ti]
             ELSE attempts' = attempts /\ last' = NoCall
       /\ pc' \in {"fetch", "type", "end"} =>
             polled' = [i \in 1..Len(polled') |-> i]]_vars

\* Every device was fetched; the last returned a mapping with the beta pair
\* and the standard version alone, and only beta was attempted.
C11_Witness ==
    /\ pc = "end"
    /\ polled = [i \in 1..Len(Devices) |-> i]
    /\ data.kind = "dict"
    /\ DOMAIN data.val = {"std-version", "beta-version", "beta-url"}
    /\ attempts = <<"beta">>

\* C12 (as claimed): a feed that has been written holds one item per row of
\* the min(100, n) newest rows, newest first by first_seen and, among rows
\* of one first_seen, by id descending; its first item is the row inserted
\* last.
C12_FeedNewestFirst ==
    rss_writes >= 1 =>
        /\ feed = [i \in 1..Min(LIMIT, Len(store)) |->
                      Item(ScanOrder(Rows(store), FALSE)[i])]
        /\ store # <<>> => feed[1] = Item(store[Len(store)])

C14_StandardEnum ==
    \A r \in Rows(store) : r.release_type \in {"standard", "beta", "alpha"}

\* C14 (amended): every row's release_type is one of std, beta, alpha, the
\* prefix of the manifest keys its version and url were read from; the
\* notifications sent for it and the feed items name it so.
C14_StdEnum ==
    [][/\ \A r \in Rows(store') : r.release_type \in {"std", "beta", "alpha"}
       /\ Len(store') > Len(store) =>
             LET r == store'[Len(store')]
             IN  /\ (r.release_type \o "-version") \in DOMAIN data.val
                 /\ (r.release_type \o "-url") \in DOMAIN data.val
                 /\ r.version = data.val[r.release_type \o "-version"]
                 /\ r.url = data.val[r.release_type \o "-url"]
                 /\ \A i \in 1..Len(last'.calls) :
                        last'.calls[i].op \in {"request", "post"} =>
                           last'.calls[i].text =
                              "New firmware version for " \o r.device \o ": "
                                 \o r.version \o " (" \o r.release_type \o ")"
       /\ \A i \in 1..Len(feed') :
             \E r \in Rows(store') :
                /\ r.release_type \in {"std", "beta", "alpha"}
                /\ feed'[i].title = r.device \o " - " \o r.version
                                        \o " (" \o r.release_type \o ")"
                /\ feed'[i].description =
                      "Version " \o r.version \o " (" \o r.release_type
                         \o ") for " \o r.device]_vars

\* A run that read a pair under the std keys has pushed for it and written
\* the feed, whose items name the row's release type std.
C14_Witness ==
    /\ pc = "done"
    /\ sent.push >= 1
    /\ \E r \in Rows(store) : r.release_type = "std"
    /\ \E i \in 1..Len(feed) :
          feed[i].title = Devices[1] \o " - " \o VersionNames[1] \o " (std)"

\* C15 (as claimed): whatever value a fetch returned, an iteration of the
\* inner loop for a release type whose two keys the value does not have
\* makes no insert attempt, raises nothing and leaves the run going.
C15_ManifestTolerance ==
    [][(/\ pc = "type"
        /\ pc' # "killed"
        /\ ~(/\ data.kind = "dict"
              /\ version_key(RELEASE_TYPES[ti]) \in DOMAIN data.val
              /\ url_key(RELEASE_TYPES[ti]) \in DOMAIN data.val))
          => /\ pc' \in {"fetch", "type", "end"}
             /\ last' = NoCall
             /\ store' = store]_vars

\* C16 (as claimed): no login is attempted before a row is inserted; a
\* completed run with the social credentials set in which no post failed
\* made exactly one login attempt if it inserted a row and none otherwise; a
\* run starts without a session.
C16_OneLoginUnlessPostFails ==
    /\ sent.login > 0 => inserted >= 1
    /\ (pc = "done" /\ SocialOn /\ "post" \notin errors) =>
          sent.login = IF inserted >= 1 THEN 1 ELSE 0
    /\ (pc = "fetch" /\ polled = <<>>) => client = "None"

\* C16 (amended): no login is attempted before a row is inserted; a cached
\* session is used for the next row's first post without a login; as long
\* as no login and no post has failed, a run with the social credentials set
\* has made exactly one login attempt if it inserted a row and none
\* otherwise, and a failed login leaves no session; a run starts without a
\* session.
C16_CachedSession ==
    [][/\ sent'.login > 0 => inserted' >= 1
       /\ (/\ pc' \in {"fetch", "type", "end", "done"}
           /\ BLUESKY_USERNAME' /\ BLUESKY_APP_PASSWORD'
           /\ errors' \cap {"login", "post"} = {}) =>
             sent'.login = IF inserted' >= 1 THEN 1 ELSE 0
       /\ (client = "Session" /\ CallsOf(last'.calls, "social") # <<>>) =>
             CallsOf(last'.calls, "social")[1].op = "post"
       /\ (/\ CallsOf(last'.calls, "social") # <<>>
           /\ LET c == CallsOf(last'.calls, "social")
              IN  c[Len(c)].op = "login" /\ ~c[Len(c)].ok) =>
             client' = "None"
       /\ runs' # runs => client' = "None" /\ sent'.login = 0]_vars

\* A completed run with the social credentials set inserted two rows and
\* posted for both after a single login; nothing failed.
C16_Witness ==
    /\ pc = "done"
    /\ SocialOn
    /\ inserted >= 2
    /\ errors = {}
    /\ sent.login = 1
    /\ sent.post >= 2

\* C17: every post is made on a session whose latest login succeeded: in the
\* same call if the call logged in before the post, in an earlier call of
\* the run if it did not.  A failed first login is followed by no post for
\* that record, a failed login of either kind leaves client None, and an
\* insert that finds client None with the social credentials set starts with
\* a login.  No record causes more than two login attempts.
C17_PostOnlyWhenLoggedIn ==
    [][LET S == CallsOf(last'.calls, "social")
           Logins(k) == {m \in 1..(k - 1) : S[m].op = "login"}
       IN  /\ \A k \in 1..Len(S) :
                  S[k].op = "post" =>
                     IF Logins(k) = {}
                     THEN client = "Session" /\ sent.login >= 1
                     ELSE \E m \in Logins(k) :
                             /\ S[m].ok
                             /\ \A n \in Logins(k) : n <= m
           /\ (S # <<>> /\ S[1].op = "login" /\ ~S[1].ok) => Len(S) = 1
           /\ (S # <<>> /\ S[Len(S)].op = "login" /\ ~S[Len(S)].ok) =>
                  client' = "None"
           /\ (/\ client = "None"
               /\ BLUESKY_USERNAME /\ BLUESKY_APP_PASSWORD
               /\ last'.result = "Inserted" /\ last'.error = "none") =>
                  S # <<>> /\ S[1].op = "login"
           /\ client' \in {"None", "Session"}
           /\ Cardinality({k \in 1..Len(S) : S[k].op = "login"}) <= 2]_vars

\* A post on the cached session failed and so did the login after it: no
\* retry was made and the session is gone while the run goes on.
C17_Witness ==
    /\ Len(Social) = 2
    /\ Social[1].op = "post" /\ ~Social[1].ok
    /\ Social[2].op = "login" /\ ~Social[2].ok
    /\ client = "None"
    /\ pc \in {"fetch", "type", "end"}

\* C18: outbound calls are made only in the step that inserts a row, for
\* that row's triple, which the table did not hold before; an insert attempt
\* for a triple the table holds makes no call, whatever became of the run
\* that inserted it; no step takes a row away, whether or not its
\* notification failed.
C18_NotifiedAtMostOnce ==
    [][/\ last'.calls # <<>> =>
             /\ Len(store') = Len(store) + 1
             /\ Triple(store'[Len(store')]) =
                   <<last'.device, last'.version, last'.release_type>>
             /\ ~StoredTriple(last'.device, last'.version, last'.release_type)
             /\ \A i \in 1..Len(last'.calls) :
                   last'.calls[i].op \in {"request", "post"} =>
                      last'.calls[i].text =
                         Message(last'.device, last'.version, last'.release_type)
       /\ (/\ last'.result # "none"
           /\ StoredTriple(last'.device, last'.version, last'.release_type)) =>
             last'.calls = <<>>
       /\ (runs' = runs /\ (sent' # sent \/ errors' # errors)) =>
             last'.calls # <<>>
       /\ \A i \in 1..Len(store) : i <= Len(store') /\ store'[i] = store[i]]_vars

\* The process was ended between the commit of a row and its notifications
\* with both sinks on: the row is stored and no call was made.
C18_Witness ==
    /\ pc = "killed"
    /\ last.result = "Inserted"
    /\ last.error = "killed"
    /\ last.calls = <<>>
    /\ sent = NoneSent
    /\ PushOn /\ SocialOn
    /\ StoredTriple(last.device, last.version, last.release_type)

\* C19 (as claimed): the pubDate of every feed item denotes the instant its
\* row's first_seen denotes in the machine's zone: the Denver wall-clock
\* time is first_seen less the machine's offset plus Denver's.
C19_PubDateSameInstant ==
    \A i \in 1..Len(feed) :
        \E r \in Rows(store) :
            /\ feed[i].title = Item(r).title
            /\ feed[i].pubDate.utcoffset = local_tz
            /\ feed[i].pubDate.wall =
                  r.first_seen - tz * 3600 + local_tz * 3600
            /\ feed[i].pubDate.wall - feed[i].pubDate.utcoffset * 3600 =
                  r.first_seen - tz * 3600

====
